---- MODULE Spec2Model ----
(***************************************************************************)
(* Model of src/export/fribbels.rs of completionist-archiver: the          *)
(* OptimizerExporter (the export aggregator), the two validators           *)
(* export_proto_achievement / export_proto_book, and the reference         *)
(* Database they consult.                                                  *)
(***************************************************************************)
EXTENDS Integers, Sequences, FiniteSets, TLC

\* ---------------------------------------------------------------- bounds
\* Longest material_list / quest_list carried by one fed command.
MaxList == 2
\* Longest accumulated sequence the model lets the exporter build.
MaxSeq == 2
\* Longest reference list drawn when the validators are checked on their own.
MaxRef == 2

\* ---------------------------------------------------------------- values
\* Option<T>, and the outcome of an expression that may panic.
None == [kind |-> "None"]
Some(v) == [kind |-> "Some", value |-> v]
Panic == [kind |-> "Panic"]

\* Result<T, E> of parse_proto.
Ok(v) == [kind |-> "Ok", value |-> v]
Err == [kind |-> "Err"]

\* Return values recorded for the last call.
Unit == [kind |-> "unit"]
Bool(b) == [kind |-> "bool", value |-> b]

\* The variants of the protobuf enum QuestStatus; a Quest's status field is
\* an EnumOrUnknown<QuestStatus>, so the wire may also carry a number that
\* is no variant.
QUEST_NONE == "QUEST_NONE"
QUEST_DOING == "QUEST_DOING"
QUEST_FINISH == "QUEST_FINISH"
QUEST_CLOSE == "QUEST_CLOSE"
QUEST_DELETE == "QUEST_DELETE"
QuestStatus == {QUEST_NONE, QUEST_DOING, QUEST_FINISH, QUEST_CLOSE, QUEST_DELETE}
UnknownStatus == "Unknown(99)"

\* Command ids: the three the exporter matches on, and one it does not.
PlayerGetTokenScRsp == "PlayerGetTokenScRsp"
GetBagScRsp == "GetBagScRsp"
GetQuestDataScRsp == "GetQuestDataScRsp"
PlayerHeartBeatScRsp == "PlayerHeartBeatScRsp"
CommandIds == {PlayerGetTokenScRsp, GetBagScRsp, GetQuestDataScRsp, PlayerHeartBeatScRsp}

\* ---------------------------------------------------------------- inputs
SeqsUpTo(S, n) == UNION {[1..k -> S] : k \in 0..n}

Uids == {123456, 654321}
QuestIds == {100, 300}
Tids == {55, 100}
StatusInputs == {QUEST_NONE, QUEST_DOING, QUEST_FINISH, QUEST_CLOSE, UnknownStatus}

Quests == [id : QuestIds, status : StatusInputs]
Materials == [tid : Tids, num : {1, 2}]

\* Payloads as the bytes of a command: the message they encode, or garbage.
TokenPayloads == [schema : {PlayerGetTokenScRsp}, uid : Uids]
BagPayloads == [schema : {GetBagScRsp}, material_list : SeqsUpTo(Materials, MaxList)]
QuestPayloads == [schema : {GetQuestDataScRsp}, quest_list : SeqsUpTo(Quests, MaxList)]
Garbage == [schema |-> "garbage"]

\* The payload a command id announces.
PayloadsOf(id) ==
    CASE id = PlayerGetTokenScRsp -> TokenPayloads
      [] id = GetBagScRsp -> BagPayloads
      [] id = GetQuestDataScRsp -> QuestPayloads
      [] OTHER -> {}

\* Payloads a command may carry whatever its id: garbage, or a short message
\* of any of the three schemas.
AnyPayloads ==
    {Garbage} \cup TokenPayloads
        \cup {p \in BagPayloads : Len(p.material_list) <= 1}
        \cup {p \in QuestPayloads : Len(p.quest_list) <= 1}

GameCommands ==
    UNION {[command_id : {id}, data : PayloadsOf(id) \cup AnyPayloads] : id \in CommandIds}

\* Reference snapshots the exporter is constructed with.
Databases ==
    { [achievement_list |-> <<100, 200>>, book_list |-> <<55>>],
      [achievement_list |-> <<300, 100>>, book_list |-> <<100, 55>>],
      [achievement_list |-> <<>>, book_list |-> <<>>] }

\* Reference snapshots for the validators on their own.
RefIds == {55, 100, 200, 300}
AllDatabases == [achievement_list : SeqsUpTo(RefIds, MaxRef), book_list : SeqsUpTo(RefIds, MaxRef)]

\* ----------------------------------------------------------------- state
VARIABLES
    database,       \* OptimizerExporter.database
    uid,            \* OptimizerExporter.uid : Option<u32>
    achievements,   \* OptimizerExporter.achievements : Vec<u32>
    books,          \* OptimizerExporter.books : Vec<u32>
    phase,          \* "Collecting", "Finalized" (self consumed by export), "Panicked"
    call,           \* the last call: its name, and for read_command the command id and parse outcome
    ret,            \* what the last call returned
    written,        \* history: the first and the most recent uid handed to set_uid
    fed,            \* history: entries the validators accepted in completed commands
    expect,         \* history: the ids of the listed (and, for quests, terminal) entries of every decoded command
    script,         \* history: how many calls of the scenario of spec section 8 the calls so far are, -1 if they are not its start
    boot            \* Database::new_from_online: its position, the requests made, the responses, its result

vars == <<database, uid, achievements, books, phase, call, ret, written, fed, expect, script, boot>>

\* The exporter as a value.
Self == [database |-> database, uid |-> uid, achievements |-> achievements, books |-> books]

\* The elements of a Vec.
Elems(seq) == {seq[i] : i \in 1..Len(seq)}

\* Vec::contains
contains(vec, x) == \E i \in 1..Len(vec) : vec[i] = x

\* ------------------------------------------------------------ validators
\* Mutant of export_proto_achievement: no membership test.
export_proto_achievement_unchecked(db, proto) ==
    IF proto.status \notin QuestStatus
    THEN Panic
    ELSE IF proto.status = QUEST_CLOSE \/ proto.status = QUEST_FINISH
         THEN Some([id |-> proto.id])
         ELSE None

export_proto_achievement(db, proto) ==
    IF proto.status \notin QuestStatus
    THEN Panic
    ELSE IF (proto.status = QUEST_CLOSE \/ proto.status = QUEST_FINISH)
            /\ contains(db.achievement_list, proto.id)
         THEN Some([id |-> proto.id])
         ELSE None

\* Mutants of export_proto_book: no membership test; the wrong reference list.
export_proto_book_unchecked(db, proto) == Some([id |-> proto.tid])

export_proto_book_wrong_list(db, proto) ==
    IF contains(db.achievement_list, proto.tid)
    THEN Some([id |-> proto.tid])
    ELSE None

export_proto_book(db, proto) ==
    IF contains(db.book_list, proto.tid)
    THEN Some([id |-> proto.tid])
    ELSE None

\* -------------------------------------------------------------- exporter
new(db) == [database |-> db, uid |-> None, achievements |-> <<>>, books |-> <<>>]

\* Mutant of set_uid: the first uid written is kept.
set_uid_keep_first(self, u) ==
    IF self.uid.kind = "Some" THEN self ELSE [self EXCEPT !.uid = Some(u)]

set_uid(self, u) == [self EXCEPT !.uid = Some(u)]

\* iter().filter_map(export_proto_book).collect(), then the ids
RECURSIVE collect_books(_, _)
collect_books(db, material_list) ==
    IF material_list = <<>>
    THEN <<>>
    ELSE LET r == export_proto_book(db, Head(material_list))
             rest == collect_books(db, Tail(material_list))
         IN IF r.kind = "Some" THEN <<r.value.id>> \o rest ELSE rest

\* Mutant of add_inventory: the new ids are put in front of the old ones.
add_inventory_prepend(self, bag) ==
    [self EXCEPT !.books = collect_books(self.database, bag.material_list) \o self.books]

add_inventory(self, bag) ==
    [self EXCEPT !.books = self.books \o collect_books(self.database, bag.material_list)]

\* iter().filter_map(export_proto_achievement).collect(): a panic in the
\* closure unwinds out of collect, before anything is appended.
RECURSIVE collect_achievements(_, _)
collect_achievements(db, quest_list) ==
    IF quest_list = <<>>
    THEN [panicked |-> FALSE, ids |-> <<>>]
    ELSE LET r == export_proto_achievement(db, Head(quest_list))
         IN IF r.kind = "Panic"
            THEN [panicked |-> TRUE, ids |-> <<>>]
            ELSE LET rest == collect_achievements(db, Tail(quest_list))
                 IN IF rest.panicked
                    THEN rest
                    ELSE [panicked |-> FALSE,
                          ids |-> IF r.kind = "Some" THEN <<r.value.id>> \o rest.ids ELSE rest.ids]

\* Mutant of add_achievements: an id already accumulated is not appended again.
RECURSIVE append_new(_, _)
append_new(seq, ids) ==
    IF ids = <<>>
    THEN seq
    ELSE append_new(IF contains(seq, Head(ids)) THEN seq ELSE Append(seq, Head(ids)), Tail(ids))

add_achievements_dedup(self, quest) ==
    LET c == collect_achievements(self.database, quest.quest_list)
    IN IF c.panicked
       THEN Panic
       ELSE Some([self EXCEPT !.achievements = append_new(self.achievements, c.ids)])

\* Returns the exporter afterwards, or Panic.
add_achievements(self, quest) ==
    LET c == collect_achievements(self.database, quest.quest_list)
    IN IF c.panicked
       THEN Panic
       ELSE Some([self EXCEPT !.achievements = self.achievements \o c.ids])

\* GameCommand::parse_proto::<T>: the payload decodes as T or the decode fails.
parse_proto(schema, command) ==
    IF command.data.schema = schema THEN Ok(command.data) ELSE Err

\* Mutant of on_token: a payload that does not decode forgets the uid.
on_token_reset_on_err(self, command) ==
    LET cmd == parse_proto(PlayerGetTokenScRsp, command)
    IN IF cmd.kind = "Ok"
       THEN [parsed |-> "ok", self |-> Some(set_uid(self, cmd.value.uid))]
       ELSE [parsed |-> "err", self |-> Some([self EXCEPT !.uid = None])]

\* The arms of read_command's match: each returns the parse outcome and the
\* exporter afterwards (or Panic).
on_token(self, command) ==
    LET cmd == parse_proto(PlayerGetTokenScRsp, command)
    IN IF cmd.kind = "Ok"
       THEN [parsed |-> "ok", self |-> Some(set_uid(self, cmd.value.uid))]
       ELSE [parsed |-> "err", self |-> Some(self)]

\* Mutant of on_bag: a payload that does not decode empties the book sequence.
on_bag_clear_on_err(self, command) ==
    LET cmd == parse_proto(GetBagScRsp, command)
    IN IF cmd.kind = "Ok"
       THEN [parsed |-> "ok", self |-> Some(add_inventory(self, cmd.value))]
       ELSE [parsed |-> "err", self |-> Some([self EXCEPT !.books = <<>>])]

on_bag(self, command) ==
    LET cmd == parse_proto(GetBagScRsp, command)
    IN IF cmd.kind = "Ok"
       THEN [parsed |-> "ok", self |-> Some(add_inventory(self, cmd.value))]
       ELSE [parsed |-> "err", self |-> Some(self)]

\* Mutant of on_quest: the accepted ids go to the book sequence.
on_quest_into_books(self, command) ==
    LET cmd == parse_proto(GetQuestDataScRsp, command)
        c == collect_achievements(self.database, cmd.value.quest_list)
    IN IF cmd.kind = "Ok"
       THEN [parsed |-> "ok",
             self |-> IF c.panicked THEN Panic ELSE Some([self EXCEPT !.books = self.books \o c.ids])]
       ELSE [parsed |-> "err", self |-> Some(self)]

on_quest(self, command) ==
    LET cmd == parse_proto(GetQuestDataScRsp, command)
    IN IF cmd.kind = "Ok"
       THEN [parsed |-> "ok", self |-> add_achievements(self, cmd.value)]
       ELSE [parsed |-> "err", self |-> Some(self)]

\* Mutant of on_other: the default arm decodes the command as a token command.
on_other_as_token(self, command) ==
    [parsed |-> "none", self |-> on_token(self, command).self]

on_other(self, command) == [parsed |-> "none", self |-> Some(self)]

read_command(self, command) ==
    CASE command.command_id = PlayerGetTokenScRsp -> on_token(self, command)
      [] command.command_id = GetBagScRsp -> on_bag(self, command)
      [] command.command_id = GetQuestDataScRsp -> on_quest(self, command)
      [] OTHER -> on_other(self, command)

\* Mutant of is_finished: any one of the three suffices.
is_finished_any(self) ==
    self.uid.kind = "Some" \/ self.achievements # <<>> \/ self.books # <<>>

is_finished(self) ==
    self.uid.kind = "Some" /\ self.achievements # <<>> /\ self.books # <<>>

ExportVersion == 3
CARGO_PKG_VERSION == "CARGO_PKG_VERSION"

\* Mutants of export: a stale schema version; the two sequences swapped.
export_stale_version(self) ==
    [source |-> "completionist_archiver",
     build |-> CARGO_PKG_VERSION,
     version |-> ExportVersion - 1,
     metadata |-> [uid |-> self.uid],
     achievements |-> self.achievements,
     books |-> self.books]

export_swapped(self) ==
    [source |-> "completionist_archiver",
     build |-> CARGO_PKG_VERSION,
     version |-> ExportVersion,
     metadata |-> [uid |-> self.uid],
     achievements |-> self.books,
     books |-> self.achievements]

export(self) ==
    [source |-> "completionist_archiver",
     build |-> CARGO_PKG_VERSION,
     version |-> ExportVersion,
     metadata |-> [uid |-> self.uid],
     achievements |-> self.achievements,
     books |-> self.books]

\* --------------------------------------------------------------- actions
\* ------------------------------------------------------------- bootstrap
\* The three resources Database::new_from_online requests.
AchievementDataUrl == "https://raw.githubusercontent.com/Dimbreath/StarRailData/master/ExcelOutput/AchievementData.json"
LocalbookConfigUrl == "https://raw.githubusercontent.com/Dimbreath/StarRailData/master/ExcelOutput/LocalbookConfig.json"
KeysUrl == "https://raw.githubusercontent.com/tamilpp25/Iridium-SR/main/data/Keys.json"

\* JSON values. A number that as_u64 accepts is kept as its two 32-bit
\* halves, n = hi * 2^32 + lo.
JsonNull == [t |-> "null"]
JsonU64(hi, lo) == [t |-> "u64", hi |-> hi, lo |-> lo]
JsonString(chars) == [t |-> "string", chars |-> chars]
JsonArray == [t |-> "array"]
JsonObject(entries) == [t |-> "object", entries |-> entries]
NotJson == [t |-> "invalid"]

\* What a GET may come back with: no response, an error status, or a body.
TransportError == [kind |-> "transport"]
StatusError == [kind |-> "status", code |-> 404]
Body(b) == [kind |-> "ok", body |-> b]

\* An Excel row: a JSON object with one field.
Row(field, v) == JsonObject(<<[key |-> field, value |-> v]>>)

\* Rows of a dataset whose id field is `field`: an id, an id above u32, a
\* string where the number should be, and a row without the field.
RowsOf(field) ==
    { Row(field, JsonU64(0, 100)), Row(field, JsonU64(1, 200)),
      Row(field, JsonString(<<"1", "0", "0">>)), Row("Name", JsonU64(0, 100)) }

\* Sequences of entries with pairwise different keys.
DistinctKeys(objs) == {o \in objs : \A i, j \in 1..Len(o) : o[i].key = o[j].key => i = j}

\* The object whose i-th entry, keyed "row<i>", is the i-th row.
RowKeys == <<"row1", "row2", "row3", "row4">>
ObjectOf(rows) == JsonObject([i \in 1..Len(rows) |-> [key |-> RowKeys[i], value |-> rows[i]]])

DatasetBodies(field) ==
    {NotJson, JsonArray} \cup {ObjectOf(rows) : rows \in SeqsUpTo(RowsOf(field), MaxRef)}

\* Texts of the key dataset: "QUJD" and "QQ==" decode, "QR==" has trailing
\* bits, "Q!==" a character outside the alphabet.
KeyTexts == { <<"Q", "U", "J", "D">>, <<"Q", "Q", "=", "=">>, <<"Q", "R", "=", "=">>, <<"Q", "!", "=", "=">> }
KeyNames == { <<"4", "2">>, <<"x">> }

KeysBodies ==
    {NotJson, JsonArray}
        \cup {JsonObject(es) : es \in DistinctKeys(SeqsUpTo(
                [key : KeyNames, value : {JsonString(t) : t \in KeyTexts} \cup {JsonU64(0, 7)}], MaxRef))}

Responses(bodies) == {TransportError, StatusError} \cup {Body(b) : b \in bodies}

\* serde_json::Value: value[field], as_u64, as_object
Index(v, field) ==
    IF v.t = "object" /\ \E i \in 1..Len(v.entries) : v.entries[i].key = field
    THEN v.entries[CHOOSE i \in 1..Len(v.entries) : v.entries[i].key = field].value
    ELSE JsonNull

as_u64(v) == IF v.t = "u64" THEN Some(v) ELSE None

\* `as u32` of a u64: the low 32 bits.
as_u32(n) == n.lo

\* ureq::get(url).call().unwrap().into_json().unwrap() as serde_json::Value
get_json(response) ==
    IF response.kind # "ok" THEN Panic
    ELSE IF response.body.t = "invalid" THEN Panic
    ELSE Some(response.body)

\* The loop of load_online_achievement_list / load_online_book_list.
RECURSIVE push_ids(_, _)
push_ids(entries, field) ==
    IF entries = <<>>
    THEN Some(<<>>)
    ELSE LET id == as_u64(Index(Head(entries).value, field))
         IN IF id = None
            THEN Panic
            ELSE LET rest == push_ids(Tail(entries), field)
                 IN IF rest = Panic THEN Panic ELSE Some(<<as_u32(id.value)>> \o rest.value)

load_online_list(response, field) ==
    LET json_object == get_json(response)
    IN IF json_object = Panic THEN Panic
       ELSE IF json_object.value.t # "object" THEN Panic
       ELSE push_ids(json_object.value.entries, field)

load_online_achievement_list(response) == load_online_list(response, "AchievementID")

\* Mutant of load_online_book_list: rows without a numeric BookID are left out.
RECURSIVE push_ids_lenient(_, _)
push_ids_lenient(entries, field) ==
    IF entries = <<>>
    THEN <<>>
    ELSE LET id == as_u64(Index(Head(entries).value, field))
         IN IF id = None
            THEN push_ids_lenient(Tail(entries), field)
            ELSE <<as_u32(id.value)>> \o push_ids_lenient(Tail(entries), field)

load_online_book_list_lenient(response) ==
    LET json_object == get_json(response)
    IN IF json_object = Panic THEN Panic
       ELSE IF json_object.value.t # "object" THEN Panic
       ELSE Some(push_ids_lenient(json_object.value.entries, "BookID"))

load_online_book_list(response) == load_online_list(response, "BookID")

\* A map key read as a u32: decimal digits only.
Digits == <<"0", "1", "2", "3", "4", "5", "6", "7", "8", "9">>
DigitValue(c) == (CHOOSE i \in 1..10 : Digits[i] = c) - 1

RECURSIVE parse_u32(_, _)
parse_u32(chars, acc) ==
    IF chars = <<>>
    THEN Some(acc)
    ELSE IF \A i \in 1..10 : Digits[i] # Head(chars)
    THEN None
    ELSE parse_u32(Tail(chars), acc * 10 + DigitValue(Head(chars)))

key_u32(chars) == IF chars = <<>> THEN None ELSE parse_u32(chars, 0)

\* BASE64_STANDARD.decode: groups of four characters of the standard
\* alphabet, padding with '=' in the last group only, no set trailing bits.
Base64Alphabet ==
    << "A", "B", "C", "D", "E", "F", "G", "H", "I", "J", "K", "L", "M", "N", "O", "P",
       "Q", "R", "S", "T", "U", "V", "W", "X", "Y", "Z", "a", "b", "c", "d", "e", "f",
       "g", "h", "i", "j", "k", "l", "m", "n", "o", "p", "q", "r", "s", "t", "u", "v",
       "w", "x", "y", "z", "0", "1", "2", "3", "4", "5", "6", "7", "8", "9", "+", "/" >>
IsSymbol(c) == \E i \in 1..Len(Base64Alphabet) : Base64Alphabet[i] = c
Sextet(c) == (CHOOSE i \in 1..Len(Base64Alphabet) : Base64Alphabet[i] = c) - 1

decode_group(g, last) ==
    LET a == Sextet(g[1])
        b == Sextet(g[2])
        c == Sextet(g[3])
        d == Sextet(g[4])
    IN IF ~IsSymbol(g[1]) \/ ~IsSymbol(g[2]) THEN None
       ELSE IF g[3] = "=" /\ g[4] = "="
       THEN IF last /\ b % 16 = 0 THEN Some(<<a * 4 + b \div 16>>) ELSE None
       ELSE IF ~IsSymbol(g[3]) THEN None
       ELSE IF g[4] = "="
       THEN IF last /\ c % 4 = 0
            THEN Some(<<a * 4 + b \div 16, (b % 16) * 16 + c \div 4>>)
            ELSE None
       ELSE IF ~IsSymbol(g[4]) THEN None
       ELSE Some(<<a * 4 + b \div 16, (b % 16) * 16 + c \div 4, (c % 4) * 64 + d>>)

RECURSIVE base64_decode(_)
base64_decode(chars) ==
    IF chars = <<>> THEN Some(<<>>)
    ELSE IF Len(chars) < 4 THEN None
    ELSE LET head == decode_group(SubSeq(chars, 1, 4), Len(chars) = 4)
         IN IF head = None THEN None
            ELSE LET rest == base64_decode(SubSeq(chars, 5, Len(chars)))
                 IN IF rest = None THEN None ELSE Some(head.value \o rest.value)

\* ureq::get(url).call().unwrap().into_json().unwrap() as HashMap<u32, String>:
\* the set of (key, text) pairs, or Panic.
get(response) ==
    IF response.kind # "ok" THEN Panic
    ELSE IF response.body.t # "object" THEN Panic
    ELSE LET es == response.body.entries
         IN IF \E i \in 1..Len(es) : key_u32(es[i].key) = None \/ es[i].value.t # "string"
            THEN Panic
            ELSE Some({[k |-> key_u32(es[i].key).value, v |-> es[i].value.chars] : i \in 1..Len(es)})

\* The keys as the set of (uid, bytes) pairs of the HashMap.
load_online_keys(response) ==
    LET keys == get(response)
    IN IF keys = Panic THEN Panic
       ELSE IF \E e \in keys.value : base64_decode(e.v) = None THEN Panic
       ELSE Some({[k |-> e.k, v |-> base64_decode(e.v).value] : e \in keys.value})

\* ------------------------------------------ the document as JSON text
\* serde_json text as its sequence of tokens: punctuation, string
\* literals, the digits of a number one by one, and null. The strings of
\* an Export hold no character that needs an escape.
Punct(c) == [t |-> "punct", c |-> c]
StringLiteral(chars) == [t |-> "string", chars |-> chars]
Digit(c) == [t |-> "digit", c |-> c]
NullLiteral == [t |-> "null"]

\* What a Deserialize step gives back: the value and the text left over.
Parsed(v, rest) == [kind |-> "Ok", value |-> v, rest |-> rest]

\* itoa: the decimal digits of a u32, most significant first.
RECURSIVE serialize_u32(_)
serialize_u32(n) ==
    IF n < 10 THEN <<Digit(Digits[n + 1])>>
    ELSE serialize_u32(n \div 10) \o <<Digit(Digits[(n % 10) + 1])>>

serialize_str(chars) == <<StringLiteral(chars)>>

\* Mutant of serialize_option: an absent uid written as the number 0.
serialize_option_zero(o) == IF o = None THEN serialize_u32(0) ELSE serialize_u32(o.value)

\* Option<u32>: null, or the number.
serialize_option(o) == IF o = None THEN <<NullLiteral>> ELSE serialize_u32(o.value)

\* The elements of a Vec<u32>, comma separated.
RECURSIVE serialize_elements(_)
serialize_elements(v) ==
    IF v = <<>> THEN <<>>
    ELSE IF Len(v) = 1 THEN serialize_u32(v[1])
    ELSE serialize_u32(v[1]) \o <<Punct(",")>> \o serialize_elements(Tail(v))

serialize_seq(v) == <<Punct("[")>> \o serialize_elements(v) \o <<Punct("]")>>

serialize_field(name, value) == <<StringLiteral(name), Punct(":")>> \o value

\* #[derive(Serialize)] of Metadata
serialize_metadata(metadata) ==
    <<Punct("{")>> \o serialize_field("uid", serialize_option(metadata.uid)) \o <<Punct("}")>>

\* serde_json::to_string of an Export: #[derive(Serialize)] writes the
\* fields in declaration order.
to_string(value) ==
    <<Punct("{")>>
        \o serialize_field("source", serialize_str(value.source)) \o <<Punct(",")>>
        \o serialize_field("build", serialize_str(value.build)) \o <<Punct(",")>>
        \o serialize_field("version", serialize_u32(value.version)) \o <<Punct(",")>>
        \o serialize_field("metadata", serialize_metadata(value.metadata)) \o <<Punct(",")>>
        \o serialize_field("achievements", serialize_seq(value.achievements)) \o <<Punct(",")>>
        \o serialize_field("books", serialize_seq(value.books))
        \o <<Punct("}")>>

\* The next token is `token`.
Peek(tokens, token) == tokens # <<>> /\ Head(tokens) = token
IsDigit(tokens) == tokens # <<>> /\ Head(tokens).t = "digit"

\* A JSON number read as a u32: "0", or a nonzero digit followed by
\* digits (a leading zero is not a number).
RECURSIVE read_digits(_, _)
read_digits(tokens, acc) ==
    IF IsDigit(tokens)
    THEN read_digits(Tail(tokens), acc * 10 + DigitValue(Head(tokens).c))
    ELSE Parsed(acc, tokens)

deserialize_u32(tokens) ==
    IF ~IsDigit(tokens) THEN Err
    ELSE IF Head(tokens).c = "0"
    THEN IF IsDigit(Tail(tokens)) THEN Err ELSE Parsed(0, Tail(tokens))
    ELSE read_digits(tokens, 0)

\* &'static str: a string literal, borrowed from the text.
deserialize_str(tokens) ==
    IF tokens # <<>> /\ Head(tokens).t = "string"
    THEN Parsed(Head(tokens).chars, Tail(tokens))
    ELSE Err

\* Option<u32>: null is None, anything else must be the number.
deserialize_option(tokens) ==
    IF Peek(tokens, NullLiteral) THEN Parsed(None, Tail(tokens))
    ELSE LET r == deserialize_u32(tokens)
         IN IF r = Err THEN Err ELSE Parsed(Some(r.value), r.rest)

\* Vec<u32>: "[" then the elements up to "]".
RECURSIVE deserialize_elements(_, _)
deserialize_elements(tokens, acc) ==
    LET r == deserialize_u32(tokens)
    IN IF r = Err THEN Err
       ELSE IF Peek(r.rest, Punct(",")) THEN deserialize_elements(Tail(r.rest), Append(acc, r.value))
       ELSE IF Peek(r.rest, Punct("]")) THEN Parsed(Append(acc, r.value), Tail(r.rest))
       ELSE Err

deserialize_seq(tokens) ==
    IF ~Peek(tokens, Punct("[")) THEN Err
    ELSE IF Peek(Tail(tokens), Punct("]")) THEN Parsed(<<>>, Tail(Tail(tokens)))
    ELSE deserialize_elements(Tail(tokens), <<>>)

\* The field types of the two structs.
MetadataFields == [uid |-> "Option<u32>"]
ExportFields ==
    [source |-> "&str", build |-> "&str", version |-> "u32", metadata |-> "Metadata",
     achievements |-> "Vec<u32>", books |-> "Vec<u32>"]

\* The map visitor #[derive(Deserialize)] generates: fields in any order,
\* each at most once. (A field the struct does not have is skipped by
\* serde; to_string writes none, and here it is an error.)
RECURSIVE deserialize_fields(_, _, _), deserialize_struct(_, _), deserialize_field(_, _)
deserialize_fields(tokens, fields, acc) ==
    IF tokens = <<>> \/ Head(tokens).t # "string" \/ ~Peek(Tail(tokens), Punct(":")) THEN Err
    ELSE LET name == Head(tokens).chars
         IN IF name \notin DOMAIN fields THEN Err
            ELSE IF acc[name] # None THEN Err
            ELSE LET r == deserialize_field(fields[name], Tail(Tail(tokens)))
                 IN IF r = Err THEN Err
                    ELSE LET seen == [acc EXCEPT ![name] = Some(r.value)]
                         IN IF Peek(r.rest, Punct(",")) THEN deserialize_fields(Tail(r.rest), fields, seen)
                            ELSE IF Peek(r.rest, Punct("}")) THEN Parsed(seen, Tail(r.rest))
                            ELSE Err

deserialize_struct(tokens, fields) ==
    LET none == [name \in DOMAIN fields |-> None]
    IN IF ~Peek(tokens, Punct("{")) THEN Err
       ELSE IF Peek(Tail(tokens), Punct("}")) THEN Parsed(none, Tail(Tail(tokens)))
       ELSE deserialize_fields(Tail(tokens), fields, none)

\* #[derive(Deserialize)] of Metadata: a missing Option field is None.
deserialize_metadata(tokens) ==
    LET r == deserialize_struct(tokens, MetadataFields)
    IN IF r = Err THEN Err
       ELSE Parsed([uid |-> IF r.value.uid = None THEN None ELSE r.value.uid.value], r.rest)

deserialize_field(type, tokens) ==
    CASE type = "&str" -> deserialize_str(tokens)
      [] type = "u32" -> deserialize_u32(tokens)
      [] type = "Option<u32>" -> deserialize_option(tokens)
      [] type = "Vec<u32>" -> deserialize_seq(tokens)
      [] type = "Metadata" -> deserialize_metadata(tokens)

\* serde_json::from_str::<Export>: every field present, nothing after
\* the closing brace.
from_str(tokens) ==
    LET r == deserialize_struct(tokens, ExportFields)
    IN IF r = Err THEN Err
       ELSE IF r.rest # <<>> THEN Err
       ELSE IF \E name \in DOMAIN ExportFields : r.value[name] = None THEN Err
       ELSE Ok([name \in DOMAIN ExportFields |-> r.value[name].value])


\* new_from_online before its first request.
BootStart ==
    [pc |-> "achievement_list", requests |-> <<>>, responses |-> <<>>,
     achievement_list |-> None, book_list |-> None, database |-> None]

\* The ids of the entries of a list that the reference list holds, in the
\* list's order: tids of materials, ids of quests with a terminal status.
ListedBooks(db, material_list) ==
    LET listed(m) == m.tid \in Elems(db.book_list)
        kept == SelectSeq(material_list, listed)
    IN [i \in 1..Len(kept) |-> kept[i].tid]

ListedAchievements(db, quest_list) ==
    LET listed(q) == q.status \in {QUEST_CLOSE, QUEST_FINISH} /\ q.id \in Elems(db.achievement_list)
        kept == SelectSeq(quest_list, listed)
    IN [i \in 1..Len(kept) |-> kept[i].id]

\* The history after read_command(command).
Expect(command) ==
    IF command.command_id = GetBagScRsp /\ command.data.schema = GetBagScRsp
    THEN [expect EXCEPT !.books = @ \o ListedBooks(database, command.data.material_list)]
    ELSE IF command.command_id = GetQuestDataScRsp /\ command.data.schema = GetQuestDataScRsp
    THEN [expect EXCEPT !.achievements = @ \o ListedAchievements(database, command.data.quest_list)]
    ELSE expect

\* The scenario of spec section 8: its database and its four commands.
ScenarioDatabase == [achievement_list |-> <<100, 200>>, book_list |-> <<55>>]

ScenarioCommands(k) ==
    CASE k = 1 -> {[command_id |-> PlayerGetTokenScRsp,
                    data |-> [schema |-> PlayerGetTokenScRsp, uid |-> 123456]]}
      [] k = 2 -> {[command_id |-> GetQuestDataScRsp,
                    data |-> [schema |-> GetQuestDataScRsp,
                              quest_list |-> <<[id |-> 100, status |-> QUEST_FINISH]>>]]}
      [] k = 3 -> {[command_id |-> GetQuestDataScRsp,
                    data |-> [schema |-> GetQuestDataScRsp,
                              quest_list |-> <<[id |-> 300, status |-> QUEST_FINISH]>>]]}
      [] k = 4 -> {[command_id |-> GetBagScRsp,
                    data |-> [schema |-> GetBagScRsp, material_list |-> <<m>>]] : m \in {x \in Materials : x.tid = 55}}

\* The bootstrap an exporter's database came from, when the exporter is
\* looked at on its own (the responses are not kept).
Booted(db) ==
    [pc |-> "done",
     requests |-> <<AchievementDataUrl, LocalbookConfigUrl, KeysUrl>>,
     responses |-> <<>>,
     achievement_list |-> Some(db.achievement_list),
     book_list |-> Some(db.book_list),
     database |-> Some([achievement_list |-> db.achievement_list, book_list |-> db.book_list, keys |-> {}])]

InitWith(dbs) ==
    /\ database \in dbs
    /\ uid = new(database).uid
    /\ achievements = new(database).achievements
    /\ books = new(database).books
    /\ phase = "Collecting"
    /\ call = [op |-> "new"]
    /\ ret = Unit
    /\ written = [first |-> None, last |-> None]
    /\ fed = [achievements |-> 0, books |-> 0]
    /\ expect = [achievements |-> <<>>, books |-> <<>>]
    /\ script = IF database = ScenarioDatabase THEN 0 ELSE -1
    /\ boot = Booted(database)

Init == InitWith(Databases)

\* Number of entries of a list a validator accepts.
RECURSIVE CountSome(_, _, _)
CountSome(db, list, isQuest) ==
    IF list = <<>>
    THEN 0
    ELSE (IF (IF isQuest THEN export_proto_achievement(db, Head(list))
                         ELSE export_proto_book(db, Head(list))).kind = "Some"
          THEN 1 ELSE 0) + CountSome(db, Tail(list), isQuest)

\* The history after set_uid(u).
Write(u) == [first |-> IF written.first = None THEN Some(u) ELSE written.first, last |-> Some(u)]

SetUid(u) ==
    /\ phase = "Collecting"
    /\ uid' = set_uid(Self, u).uid
    /\ call' = [op |-> "set_uid"]
    /\ ret' = Unit
    /\ written' = Write(u)
    /\ script' = -1
    /\ UNCHANGED <<database, achievements, books, phase, fed, expect, boot>>

ReadCommand(command) ==
    /\ phase = "Collecting"
    /\ UNCHANGED boot
    /\ expect' = Expect(command)
    /\ \E r \in {read_command(Self, command)} :
          /\ call' = [op |-> "read_command", command_id |-> command.command_id, parsed |-> r.parsed]
          /\ IF r.self.kind = "Panic"
             THEN /\ phase' = "Panicked"
                  /\ ret' = Panic
                  /\ script' = -1
                  /\ UNCHANGED <<database, uid, achievements, books, written, fed>>
             ELSE /\ Len(r.self.value.achievements) <= MaxSeq
                  /\ Len(r.self.value.books) <= MaxSeq
                  /\ database' = r.self.value.database
                  /\ uid' = r.self.value.uid
                  /\ achievements' = r.self.value.achievements
                  /\ books' = r.self.value.books
                  /\ ret' = Unit
                  /\ written' = IF command.command_id = PlayerGetTokenScRsp /\ r.parsed = "ok"
                                THEN Write(command.data.uid)
                                ELSE written
                  /\ fed' = IF r.parsed # "ok"
                            THEN fed
                            ELSE IF command.command_id = GetBagScRsp
                            THEN [fed EXCEPT !.books = @ + CountSome(database, command.data.material_list, FALSE)]
                            ELSE IF command.command_id = GetQuestDataScRsp
                            THEN [fed EXCEPT !.achievements = @ + CountSome(database, command.data.quest_list, TRUE)]
                            ELSE fed
                  /\ script' = IF script \in 0..3 /\ command \in ScenarioCommands(script + 1)
                               THEN script + 1
                               ELSE -1
                  /\ UNCHANGED phase

IsFinished ==
    /\ phase = "Collecting"
    /\ call' = [op |-> "is_finished"]
    /\ ret' = Bool(is_finished(Self))
    /\ script' = IF script = 4 THEN 5 ELSE -1
    /\ UNCHANGED <<database, uid, achievements, books, phase, written, fed, expect, boot>>

\* Mutant of Export: export borrows the exporter instead of consuming it.
ExportByRef ==
    /\ phase = "Collecting"
    /\ call' = [op |-> "export"]
    /\ ret' = [kind |-> "Export", value |-> export(Self)]
    /\ script' = IF script = 5 THEN 6 ELSE -1
    /\ UNCHANGED <<database, uid, achievements, books, phase, written, fed, expect, boot>>

Export ==
    /\ phase = "Collecting"
    /\ call' = [op |-> "export"]
    /\ ret' = [kind |-> "Export", value |-> export(Self)]
    /\ phase' = "Finalized"
    /\ script' = IF script = 5 THEN 6 ELSE -1
    /\ UNCHANGED <<database, uid, achievements, books, written, fed, expect, boot>>

Next ==
    \/ \E u \in Uids : SetUid(u)
    \/ \E command \in GameCommands : ReadCommand(command)
    \/ IsFinished
    \/ Export

Spec == Init /\ [][Next]_vars


\* ------------------------------------------- the validators on their own
CallExportProtoAchievement(proto) ==
    /\ call' = [op |-> "export_proto_achievement", proto |-> proto]
    /\ ret' = export_proto_achievement(database, proto)
    /\ UNCHANGED <<database, uid, achievements, books, phase, written, fed, expect, script, boot>>

CallExportProtoBook(proto) ==
    /\ call' = [op |-> "export_proto_book", proto |-> proto]
    /\ ret' = export_proto_book(database, proto)
    /\ UNCHANGED <<database, uid, achievements, books, phase, written, fed, expect, script, boot>>

ValidatorInit == InitWith(AllDatabases)

ValidatorNext ==
    \/ \E proto \in Quests : CallExportProtoAchievement(proto)
    \/ \E proto \in Materials : CallExportProtoBook(proto)

ValidatorSpec == ValidatorInit /\ [][ValidatorNext]_vars


\* ---------------------------------------------- the bootstrap on its own
\* One field of the Database literal of new_from_online: request, load,
\* and unwind on a panic.
BootStep(pc, url, loaded, next) ==
    /\ boot.pc = pc
    /\ boot' = [boot EXCEPT
                    !.requests = Append(@, url),
                    !.responses = Append(@, loaded.response),
                    !.pc = IF loaded.result = Panic THEN "aborted" ELSE next,
                    !.achievement_list = IF pc = "achievement_list" /\ loaded.result # Panic
                                         THEN loaded.result ELSE @,
                    !.book_list = IF pc = "book_list" /\ loaded.result # Panic
                                  THEN loaded.result ELSE @,
                    !.database = IF pc = "keys" /\ loaded.result # Panic
                                 THEN Some([achievement_list |-> boot.achievement_list.value,
                                            book_list |-> boot.book_list.value,
                                            keys |-> loaded.result.value])
                                 ELSE @]
    /\ UNCHANGED <<database, uid, achievements, books, phase, call, ret, written, fed, expect, script>>

LoadOnlineAchievementList(response) ==
    /\ phase = "Unconstructed"
    /\ BootStep("achievement_list", AchievementDataUrl,
                [response |-> response, result |-> load_online_achievement_list(response)], "book_list")

\* Mutant of LoadOnlineBookList: a failed load is tried again.
LoadOnlineBookListRetry(response) ==
    LET result == load_online_book_list(response)
    IN BootStep("book_list", LocalbookConfigUrl,
                [response |-> response, result |-> result],
                "keys")
       \/ /\ result = Panic
          /\ boot.pc = "book_list"
          /\ Len(boot.requests) <= 2
          /\ boot' = [boot EXCEPT !.requests = Append(@, LocalbookConfigUrl),
                                  !.responses = Append(@, response)]
          /\ UNCHANGED <<database, uid, achievements, books, phase, call, ret, written, fed, expect, script>>

LoadOnlineBookList(response) ==
    /\ phase = "Unconstructed"
    /\ BootStep("book_list", LocalbookConfigUrl,
                [response |-> response, result |-> load_online_book_list(response)], "keys")

LoadOnlineKeys(response) ==
    /\ phase = "Unconstructed"
    /\ BootStep("keys", KeysUrl,
                [response |-> response, result |-> load_online_keys(response)], "done")

\* OptimizerExporter::new on the Database new_from_online returned.
NewExporter ==
    /\ phase = "Unconstructed"
    /\ boot.pc = "done"
    /\ database' = [achievement_list |-> boot.database.value.achievement_list,
                    book_list |-> boot.database.value.book_list]
    /\ uid' = new(database').uid
    /\ achievements' = new(database').achievements
    /\ books' = new(database').books
    /\ phase' = "Collecting"
    /\ call' = [op |-> "new"]
    /\ UNCHANGED <<ret, written, fed, expect, script, boot>>

BootstrapInit ==
    /\ database = None
    /\ uid = None
    /\ achievements = <<>>
    /\ books = <<>>
    /\ phase = "Unconstructed"
    /\ call = [op |-> "new_from_online"]
    /\ ret = Unit
    /\ written = [first |-> None, last |-> None]
    /\ fed = [achievements |-> 0, books |-> 0]
    /\ expect = [achievements |-> <<>>, books |-> <<>>]
    /\ script = -1
    /\ boot = BootStart

BootstrapNext ==
    \/ \E response \in Responses(DatasetBodies("AchievementID")) : LoadOnlineAchievementList(response)
    \/ \E response \in Responses(DatasetBodies("BookID")) : LoadOnlineBookList(response)
    \/ \E response \in Responses(KeysBodies) : LoadOnlineKeys(response)
    \/ NewExporter

BootstrapSpec == BootstrapInit /\ [][BootstrapNext]_vars

\* ---------------------------------------------------------------- claims
RecognizedIds == {PlayerGetTokenScRsp, GetBagScRsp, GetQuestDataScRsp}

\* C1: in every reachable state every accumulated achievement id is in the
\* database's achievement_list and every accumulated book id is in its
\* book_list.
C1_AccumulatedInReference ==
    /\ \A i \in 1..Len(achievements) : achievements[i] \in Elems(database.achievement_list)
    /\ \A i \in 1..Len(books) : books[i] \in Elems(database.book_list)

\* Ids 300 and 100 were offered to a database that lists only 100 and 55.
C1_Witness ==
    /\ database.achievement_list = <<100, 200>>
    /\ achievements = <<100, 100>>
    /\ books = <<55>>
    /\ call.op = "read_command"

\* C2: export_proto_achievement returns Some(Achievement{id}) iff the status
\* is QUEST_CLOSE or QUEST_FINISH and the id is in achievement_list, and
\* returns None for every other quest entry.
C2_AchievementIffTerminalAndListed ==
    call.op = "export_proto_achievement" =>
        ret = IF /\ call.proto.status \in {QUEST_CLOSE, QUEST_FINISH}
                 /\ call.proto.id \in Elems(database.achievement_list)
              THEN Some([id |-> call.proto.id])
              ELSE None

\* C3: export_proto_book returns Some(Book{id: tid}) iff tid is in book_list,
\* None otherwise, whatever the material's other fields are.
C3_BookIffListed ==
    call.op = "export_proto_book" =>
        ret = IF call.proto.tid \in Elems(database.book_list)
              THEN Some([id |-> call.proto.tid])
              ELSE None

\* A material with num 2 is accepted on its tid alone, the tid being in
\* book_list and not in achievement_list.
C3_Witness ==
    /\ call.op = "export_proto_book"
    /\ ret = Some([id |-> 55])
    /\ call.proto.num = 2
    /\ 55 \notin Elems(database.achievement_list)

\* C4: is_finished returns true iff uid is set and both sequences are
\* non-empty, and the call changes nothing of the exporter.
C4_IsFinishedIff ==
    [][call'.op = "is_finished" =>
        /\ ret' = Bool(uid # None /\ Len(achievements) > 0 /\ Len(books) > 0)
        /\ UNCHANGED <<database, uid, achievements, books, phase>>]_vars

C4_Witness ==
    /\ call.op = "is_finished"
    /\ ret = Bool(TRUE)

\* C5: export can be called in every Collecting state, ready or not, and
\* the document it returns has version 3 and the fixed source and build.
C5_ExportAlwaysVersion3 ==
    /\ phase = "Collecting" => ENABLED Export
    /\ call.op = "export" =>
        /\ ret.kind = "Export"
        /\ ret.value.version = 3
        /\ ret.value.source = "completionist_archiver"
        /\ ret.value.build = CARGO_PKG_VERSION

\* export right after construction, nothing fed.
C5_Witness ==
    /\ call.op = "export"
    /\ ret.kind = "Export"
    /\ uid = None
    /\ achievements = <<>>
    /\ books = <<>>

\* C6: the document export returns holds the accumulated sequences as they
\* are at the call, and metadata.uid is the exporter's uid, null exactly
\* when set_uid never ran.
C6_ExportCarriesState ==
    [][call'.op = "export" =>
        /\ ret'.value.achievements = achievements
        /\ ret'.value.books = books
        /\ ret'.value.metadata.uid = uid
        /\ (ret'.value.metadata.uid = None <=> written.last = None)]_vars

\* A document with a duplicated achievement and a uid.
C6_Witness ==
    /\ call.op = "export"
    /\ ret.value.achievements = <<100, 100>>
    /\ ret.value.books = <<55>>
    /\ ret.value.metadata.uid = Some(123456)

\* C7: read_command of a command whose id is none of the three matched ids
\* leaves uid, achievements and books unchanged.
C7_UnrecognizedIgnored ==
    [][(call'.op = "read_command" /\ call'.command_id \notin RecognizedIds) =>
        UNCHANGED <<uid, achievements, books>>]_vars

C7_Witness ==
    /\ call.op = "read_command"
    /\ call.command_id = PlayerHeartBeatScRsp
    /\ uid # None
    /\ achievements # <<>>

\* C8: read_command of a command with a matched id whose payload does not
\* decode changes nothing: the exporter, its database and its phase stay as
\* they were, so what follows runs from the same state.
C8_MalformedDropped ==
    [][(call'.op = "read_command" /\ call'.command_id \in RecognizedIds /\ call'.parsed = "err") =>
        UNCHANGED <<database, uid, achievements, books, phase>>]_vars

C8_Witness ==
    /\ call.op = "read_command"
    /\ call.command_id = GetBagScRsp
    /\ call.parsed = "err"
    /\ phase = "Collecting"
    /\ books # <<>>

\* C9: each sequence is as long as the number of entries the validators
\* accepted in the commands read_command completed: nothing accepted is
\* left out because it is already there.
C9_NoDeduplication ==
    /\ Len(achievements) = fed.achievements
    /\ Len(books) = fed.books

C9_Witness ==
    /\ achievements = <<100, 100>>
    /\ books = <<55, 55>>

\* C10: uid is the uid of the most recent set_uid call or decoded token
\* command.
C10_LastWriterWins ==
    uid = written.last

\* A second write with another uid replaced the first.
C10_Witness ==
    /\ written.first = Some(123456)
    /\ uid = Some(654321)


\* C11: export moves the exporter from Collecting to Finalized, and nothing
\* happens to a Finalized exporter: no call is made on it and the returned
\* document stays as it is.
C11_ExportTerminal ==
    [][/\ phase # "Finalized"
       /\ call'.op = "export" => (phase = "Collecting" /\ phase' = "Finalized")
       /\ phase' = "Finalized" => call'.op = "export"]_vars

C11_Witness ==
    /\ phase = "Finalized"
    /\ ~ENABLED Next
    /\ ret.value.achievements # <<>>

\* The id field of new_from_online's i-th dataset.
IdField(i) == IF i = 1 THEN "AchievementID" ELSE "BookID"

\* The i-th fetch of new_from_online failed: no response or an error status,
\* a body that is not a JSON object, a row without a numeric id, a key that
\* is not a number, a text that is not a string or not base64.
FetchFailed(i, response) ==
    \/ response.kind # "ok"
    \/ /\ response.kind = "ok"
       /\ \/ response.body.t # "object"
          \/ /\ response.body.t = "object"
             /\ \E n \in 1..Len(response.body.entries) :
                   LET e == response.body.entries[n]
                   IN IF i = 3
                      THEN \/ key_u32(e.key) = None
                           \/ e.value.t # "string"
                           \/ e.value.t = "string" /\ base64_decode(e.value.chars) = None
                      ELSE Index(e.value, IdField(i)).t # "u64"

\* The ids of a dataset, row by row.
IdsOf(i, response) ==
    [n \in 1..Len(response.body.entries) |-> Index(response.body.entries[n].value, IdField(i)).lo]

\* C12: new_from_online yields a complete snapshot built from three
\* successful fetches, or aborts: once any fetch has failed there is no
\* snapshot and no exporter is constructed; a snapshot that exists holds
\* every row of both datasets and every key.
C12_SnapshotOrAbort ==
    /\ (\E i \in 1..Len(boot.responses) : FetchFailed(i, boot.responses[i]))
          => (boot.pc = "aborted" /\ boot.database = None /\ phase = "Unconstructed")
    /\ boot.pc # "done" => (boot.database = None /\ phase = "Unconstructed")
    /\ boot.database # None
          => /\ Len(boot.responses) = 3
             /\ \A i \in 1..3 : ~FetchFailed(i, boot.responses[i])
             /\ boot.database.value.achievement_list = IdsOf(1, boot.responses[1])
             /\ boot.database.value.book_list = IdsOf(2, boot.responses[2])
             /\ Cardinality(boot.database.value.keys) = Len(boot.responses[3].body.entries)
    /\ phase # "Unconstructed"
          => /\ boot.database # None
             /\ database = [achievement_list |-> boot.database.value.achievement_list,
                            book_list |-> boot.database.value.book_list]

\* The third fetch came back with a JSON object one of whose texts is not
\* base64, after two good fetches.
C12_Witness ==
    /\ boot.pc = "aborted"
    /\ Len(boot.responses) = 3
    /\ boot.responses[3].kind = "ok"
    /\ boot.responses[3].body.t = "object"
    /\ \E n \in 1..Len(boot.responses[3].body.entries) :
          LET e == boot.responses[3].body.entries[n]
          IN e.value.t = "string" /\ base64_decode(e.value.chars) = None
    /\ boot.achievement_list # None
    /\ boot.book_list # None

\* C13: the scenario of spec section 8, call by call: token 123456, quest
\* 100 finished, quest 300 finished, material 55, is_finished, export.
C13_Scenario ==
    /\ script = 1 => (uid = Some(123456) /\ achievements = <<>> /\ books = <<>>)
    /\ script = 2 => (uid = Some(123456) /\ achievements = <<100>> /\ books = <<>>)
    /\ script = 3 => (uid = Some(123456) /\ achievements = <<100>> /\ books = <<>>)
    /\ script = 4 => (uid = Some(123456) /\ achievements = <<100>> /\ books = <<55>>)
    /\ script = 5 => ret = Bool(TRUE)
    /\ script = 6 =>
        /\ ret.kind = "Export"
        /\ ret.value = [source |-> "completionist_archiver",
                        build |-> CARGO_PKG_VERSION,
                        version |-> 3,
                        metadata |-> [uid |-> Some(123456)],
                        achievements |-> <<100>>,
                        books |-> <<55>>]

C13_Witness ==
    /\ script = 6
    /\ database = ScenarioDatabase
    /\ phase = "Finalized"

\* C14: every document export returns, with the uid null or set and the
\* sequences empty or not, duplicates included, parses back from its own
\* serialization to a document equal in source, build, version,
\* metadata.uid, achievements and books.
C14_RoundTrip ==
    call.op = "export" =>
        LET parsed == from_str(to_string(ret.value))
        IN /\ parsed.kind = "Ok"
           /\ parsed.value.source = ret.value.source
           /\ parsed.value.build = ret.value.build
           /\ parsed.value.version = ret.value.version
           /\ parsed.value.metadata.uid = ret.value.metadata.uid
           /\ parsed.value.achievements = ret.value.achievements
           /\ parsed.value.books = ret.value.books

\* A document without a uid, with a duplicated achievement and no book.
C14_Witness ==
    /\ call.op = "export"
    /\ ret.value.metadata.uid = None
    /\ ret.value.achievements = <<100, 100>>
    /\ ret.value.books = <<>>
    /\ from_str(to_string(ret.value)) = Ok(ret.value)

\* C15: after every decoded inventory or quest command the sequences hold,
\* appended in payload order, exactly the ids of the command's entries that
\* the reference list holds (for quests: with a terminal status); an entry
\* that is not accepted does not keep the later ones out.
C15_AppendsListedSubsequence ==
    /\ books = expect.books
    /\ achievements = expect.achievements

\* C16: no quest entry makes the validator abort: read_command always
\* completes and the exporter stays usable.
C16_RejectionNeverAborts ==
    /\ ret # Panic
    /\ phase # "Panicked"

IsPrefix(s, t) == Len(s) <= Len(t) /\ SubSeq(t, 1, Len(s)) = s

\* C17: the fetches go out one after another in the order achievement
\* dataset, book dataset, key dataset, each endpoint at most once; a fetch
\* is issued only after the one before it succeeded, and none after a
\* failed one.
C17_SequentialOnce ==
    /\ IsPrefix(boot.requests, <<AchievementDataUrl, LocalbookConfigUrl, KeysUrl>>)
    /\ Len(boot.responses) = Len(boot.requests)
    /\ \A i \in 1..Len(boot.requests) :
          i < Len(boot.requests) => ~FetchFailed(i, boot.responses[i])

\* The book dataset failed to load: two requests went out and no third.
C17_Witness ==
    /\ boot.pc = "aborted"
    /\ boot.requests = <<AchievementDataUrl, LocalbookConfigUrl>>
    /\ FetchFailed(2, boot.responses[2])

\* C18: once is_finished holds it holds in every later Collecting state.
C18_ReadinessMonotonic ==
    [][(is_finished(Self) /\ phase' = "Collecting") =>
        (uid'.kind = "Some" /\ achievements' # <<>> /\ books' # <<>>)]_vars

\* A command whose payload does not decode was fed to a ready exporter.
C18_Witness ==
    /\ is_finished(Self)
    /\ call.op = "read_command"
    /\ call.parsed = "err"
    /\ phase = "Collecting"

\* C19: every step keeps the accumulated sequences as prefixes of the new
\* ones.
C19_AppendOnly ==
    [][IsPrefix(achievements, achievements') /\ IsPrefix(books, books')]_vars

C19_Witness ==
    /\ books = <<55, 100>>
    /\ achievements = <<100, 300>>

\* C20: a token command changes at most uid, an inventory command at most
\* books, a quest command at most achievements; none changes the database.
C20_KindFrame ==
    [][call'.op = "read_command" =>
        /\ database' = database
        /\ call'.command_id = PlayerGetTokenScRsp => UNCHANGED <<achievements, books>>
        /\ call'.command_id = GetBagScRsp => UNCHANGED <<uid, achievements>>
        /\ call'.command_id = GetQuestDataScRsp => UNCHANGED <<uid, books>>]_vars

\* A quest command was decoded and appended while uid and books were set.
C20_Witness ==
    /\ call.op = "read_command"
    /\ call.command_id = GetQuestDataScRsp
    /\ call.parsed = "ok"
    /\ achievements # <<>>
    /\ books # <<>>
    /\ uid # None

====
